---------------------------- MODULE Spec2Model ----------------------------
(***************************************************************************)
(* A model of the poker hand classifier, the PokerGameState abstraction    *)
(* and the Monte Carlo Tree Search of src/10_poker_AI_GPT.py.              *)
(*                                                                         *)
(* The specifications of the module share one list of variables:          *)
(*   SpecHand      PokerHand(cards) applied to bounded card sequences;     *)
(*   SpecFinal     the PokerHand of src/6_poker_holdem_final.py, whose     *)
(*                 evaluate_hand returns (category, highest rank);         *)
(*   SpecDeck      Deck() and its draw_card calls;                         *)
(*   SpecMoves     legal_moves / is_terminal / game_result on bounded      *)
(*                 states;                                                 *)
(*   SpecRollout   the loop of MCTS.simulate_random_game, step by step;    *)
(*   SpecShowdown  determine_winner on bounded hands and boards;           *)
(*   Spec          MCTS.choose_move, one action per step of its loop.      *)
(***************************************************************************)
EXTENDS Integers, Sequences, FiniteSets, TLC

VARIABLES
    mode,       \* which operation the behaviour exercises: "hand", "final",
                \* "deck", "moves", "rollout", "showdown", "mcts"
    cards,      \* PokerHand: the constructor's argument
    rank,       \* PokerHand: self.rank once the constructor has run, else "none"
    self_cards, \* PokerHand: self.cards once the constructor has run, else <<>>
    ranked,     \* PokerHand of 6_poker_holdem_final.py: self.rank, a pair, else <<>>
    deck_cards, \* Deck: self.cards
    drawn,      \* Deck: the cards draw_card has returned, in order
    raised,     \* Deck: the exception a draw_card call raised, else "none"
    gs,         \* PokerGameState under test (SpecMoves)
    path,       \* the states a chain of successors left behind, root first (SpecMoves)
    called,     \* whether gs.legal_moves() has returned (SpecMoves)
    moves,      \* the list legal_moves() returned for gs, once called
    result,     \* <<r>> once gs.game_result() has returned r, <<>> before
    depth,      \* how many successors the chain has descended (SpecMoves)
    table,      \* determine_winner: its arguments player_hand, ai_hand, community_cards
    winner,     \* determine_winner: the string returned, else "none"
    tree,       \* MCTS: the Node objects, in creation order; tree[1] is root
    node,       \* MCTS: the local variable node (an index of tree, 0 = None)
    iter,       \* MCTS: completed passes of the for loop
    outcome,    \* MCTS: the local variable outcome
    pc,         \* MCTS: position in choose_move
    chosen      \* MCTS: the returned state, once returned

vars == <<mode, cards, rank, self_cards, ranked, deck_cards, drawn, raised,
          gs, path, called, moves, result, depth, table, winner,
          tree, node, iter, outcome, pc, chosen>>

handVars == <<cards, rank, self_cards, ranked>>
deckVars == <<deck_cards, drawn, raised>>
movesVars == <<gs, path, called, moves, result, depth>>
showVars == <<table, winner>>
mctsVars == <<tree, node, iter, outcome, pc, chosen>>

---------------------------------------------------------------------------
(* Bounds of the model.                                                    *)

\* Longest card sequence handed to PokerHand in SpecHand.
MaxCards == 8
\* Cards of the pool the exhaustive SpecHand inputs are drawn from.
PoolSize == 3
\* Cards a shuffle may leave on top of a fresh Deck (the last DeckTop cards
\* of DeckOrder): bounds the nondeterminism of Deck().draw_card().
DeckTop == 1
\* Passes of the for loop of choose_move (range(1000) in the source).
NumSimulations == 6
\* Longest chain of successors followed in SpecMoves.
MaxDepth == 2
\* Orders random.shuffle may leave a new Deck in (SpecDeck).
ShuffleStrides == 8

---------------------------------------------------------------------------
(* Card                                                                    *)

ranks == <<"2", "3", "4", "5", "6", "7", "8", "9", "10", "J", "Q", "K", "A">>
suits == <<"Clubs", "Diamonds", "Hearts", "Spades">>

Card(r, s) == [rank |-> r, suit |-> s]

\* Card.ranks.index(r): the 0-based position of each rank string.
RankIndexTable ==
    [r \in {ranks[i] : i \in DOMAIN ranks} |->
        (CHOOSE i \in DOMAIN ranks : ranks[i] = r) - 1]

\* Card.ranks.index(card.rank)
RankIndex(card) == RankIndexTable[card.rank]

---------------------------------------------------------------------------
(* Sequence helpers                                                        *)

Range(s) == {s[i] : i \in DOMAIN s}

Min(S) == CHOOSE x \in S : \A y \in S : x <= y

RECURSIVE InsertDesc(_, _)
\* Stable insertion of card c into a sequence already sorted by descending
\* rank index: c goes after every card whose index is >= its own.
InsertDesc(s, c) ==
    IF s = <<>> THEN <<c>>
    ELSE IF RankIndex(Head(s)) >= RankIndex(c)
         THEN <<Head(s)>> \o InsertDesc(Tail(s), c)
         ELSE <<c>> \o s

RECURSIVE SortDesc(_)
\* sorted(cards, key=index of rank, reverse=True): stable, descending.
SortDesc(s) ==
    IF s = <<>> THEN <<>>
    ELSE InsertDesc(SortDesc(SubSeq(s, 1, Len(s) - 1)), s[Len(s)])

RECURSIVE InsertAsc(_, _)
InsertAsc(s, x) ==
    IF s = <<>> THEN <<x>>
    ELSE IF Head(s) <= x THEN <<Head(s)>> \o InsertAsc(Tail(s), x)
         ELSE <<x>> \o s

RECURSIVE SortAsc(_)
\* sorted(...) of a sequence of integers.
SortAsc(s) ==
    IF s = <<>> THEN <<>>
    ELSE InsertAsc(SortAsc(Tail(s)), Head(s))

\* list(range(a, b))
RangeList(a, b) == [i \in 1..(IF b > a THEN b - a ELSE 0) |-> a + i - 1]

---------------------------------------------------------------------------
(* PokerHand: the predicates read self.cards (cs below)                    *)

\* Counter(card.rank for card in self.cards).values(), as a sequence-free
\* view: the multiplicities that occur, and how many ranks have each.
RankCount(cs, r) == Cardinality({i \in DOMAIN cs : cs[i].rank = r})
CounterValues(cs) == {RankCount(cs, cs[i].rank) : i \in DOMAIN cs}
RanksWithCount(cs, n) ==
    Cardinality({cs[i].rank : i \in {j \in DOMAIN cs : RankCount(cs, cs[j].rank) = n}})

is_four_of_a_kind(cs) == 4 \in CounterValues(cs)

is_full_house(cs) == 3 \in CounterValues(cs) /\ 2 \in CounterValues(cs)

\* is_flush asking for five cards or more, all of one suit.
is_flush_five_cards(cs) ==
    Len(cs) >= 5 /\ Cardinality({cs[i].suit : i \in DOMAIN cs}) = 1

is_flush(cs) == Cardinality({cs[i].suit : i \in DOMAIN cs}) = 1

\* is_straight without the ace-low alternative.
is_straight_no_wheel(cs) ==
    LET indices == SortAsc([i \in DOMAIN cs |-> RankIndex(cs[i])])
        lo == Min(Range(indices))
    IN  indices = RangeList(lo, lo + 5)

\* is_straight comparing the indices as they stand, without sorted().
is_straight_no_sort(cs) ==
    LET indices == [i \in DOMAIN cs |-> RankIndex(cs[i])]
        lo == Min(Range(indices))
    IN  \/ indices = RangeList(lo, lo + 5)
        \/ indices = <<0, 1, 2, 3, 12>>

is_straight(cs) ==
    LET indices == SortAsc([i \in DOMAIN cs |-> RankIndex(cs[i])])
        lo == Min(Range(indices))
    IN  \/ indices = RangeList(lo, lo + 5)
        \/ indices = <<0, 1, 2, 3, 12>>

is_straight_flush(cs) == is_straight(cs) /\ is_flush(cs)

is_three_of_a_kind(cs) == 3 \in CounterValues(cs)

is_two_pair(cs) == RanksWithCount(cs, 2) = 2

is_one_pair(cs) == 2 \in CounterValues(cs)

evaluate_hand(cs) ==
    IF is_straight_flush(cs) THEN "Straight Flush"
    ELSE IF is_four_of_a_kind(cs) THEN "Four of a Kind"
    ELSE IF is_full_house(cs) THEN "Full House"
    ELSE IF is_flush(cs) THEN "Flush"
    ELSE IF is_straight(cs) THEN "Straight"
    ELSE IF is_three_of_a_kind(cs) THEN "Three of a Kind"
    ELSE IF is_two_pair(cs) THEN "Two Pair"
    ELSE IF is_one_pair(cs) THEN "One Pair"
    ELSE "High Card"

\* PokerHand keeping the cards in the order given.
PokerHand_unsorted(cs) ==
    IF cs = <<>> THEN [cards |-> <<>>, rank |-> "ValueError"]
    ELSE [cards |-> cs, rank |-> evaluate_hand(cs)]

\* PokerHand(cards): sorts, then evaluates. Of an empty list min(indices)
\* raises ValueError inside is_straight and no object is constructed.
PokerHand(cs) ==
    IF cs = <<>> THEN [cards |-> <<>>, rank |-> "ValueError"]
    ELSE LET sorted == SortDesc(cs)
         IN  [cards |-> sorted, rank |-> evaluate_hand(sorted)]


---------------------------------------------------------------------------
(* Deck                                                                    *)

\* Deck.__init__ before the shuffle: rank-major, as the comprehension runs.
DeckOrder ==
    [k \in 1..(Len(ranks) * Len(suits)) |->
        Card(ranks[((k - 1) \div Len(suits)) + 1], suits[((k - 1) % Len(suits)) + 1])]

\* Deck().draw_card(): pop() of a freshly shuffled deck, so any card of the
\* deck can come out. The model lets the shuffle leave one of the last n
\* cards of DeckOrder on top.
draw_card(n) == {DeckOrder[k] : k \in (Len(DeckOrder) - n + 1)..Len(DeckOrder)}

\* [Deck().draw_card() for _ in range(m)]: each card from a Deck of its own.
NewCards(m, n) == IF m <= 0 THEN {<<>>} ELSE [1..m -> draw_card(n)]

---------------------------------------------------------------------------
(* PokerGameState                                                          *)

\* PokerGameState.__init__, with its defaults is_terminal=False, current_bet=0.
PokerGameState(hand, community_cards, pot, is_term, current_bet) ==
    [hand |-> hand, community_cards |-> community_cards, pot |-> pot,
     current_bet |-> current_bet, is_terminal_state |-> is_term]

RaiseAmounts == <<10, 20, 50>>

\* legal_moves whose fold successor is built without the terminal flag.
legal_moves_fold_open(s, new_cards) ==
    <<PokerGameState(s.hand, s.community_cards, s.pot, FALSE, 0)>>
    \o (IF Len(s.community_cards) < 5
        THEN <<PokerGameState(s.hand, s.community_cards \o new_cards,
                              s.pot + s.current_bet, FALSE, 0)>>
             \o [i \in DOMAIN RaiseAmounts |->
                    PokerGameState(s.hand, s.community_cards \o new_cards,
                                   s.pot + s.current_bet + RaiseAmounts[i], FALSE, 0)]
        ELSE <<PokerGameState(s.hand, s.community_cards,
                              s.pot + s.current_bet, TRUE, 0)>>)

\* legal_moves with the fold successor appended after the others.
legal_moves_fold_last(s, new_cards) ==
    (IF Len(s.community_cards) < 5
     THEN <<PokerGameState(s.hand, s.community_cards \o new_cards,
                           s.pot + s.current_bet, FALSE, 0)>>
          \o [i \in DOMAIN RaiseAmounts |->
                 PokerGameState(s.hand, s.community_cards \o new_cards,
                                s.pot + s.current_bet + RaiseAmounts[i], FALSE, 0)]
     ELSE <<PokerGameState(s.hand, s.community_cards,
                           s.pot + s.current_bet, TRUE, 0)>>)
    \o <<PokerGameState(s.hand, s.community_cards, s.pot, TRUE, 0)>>

\* legal_moves whose showdown successor is built without the terminal flag.
legal_moves_showdown_open(s, new_cards) ==
    <<PokerGameState(s.hand, s.community_cards, s.pot, TRUE, 0)>>
    \o (IF Len(s.community_cards) < 5
        THEN <<PokerGameState(s.hand, s.community_cards \o new_cards,
                              s.pot + s.current_bet, FALSE, 0)>>
             \o [i \in DOMAIN RaiseAmounts |->
                    PokerGameState(s.hand, s.community_cards \o new_cards,
                                   s.pot + s.current_bet + RaiseAmounts[i], FALSE, 0)]
        ELSE <<PokerGameState(s.hand, s.community_cards,
                              s.pot + s.current_bet, FALSE, 0)>>)

\* legal_moves whose raises add the raise to the pot alone, not to the call.
legal_moves_raise_from_pot(s, new_cards) ==
    <<PokerGameState(s.hand, s.community_cards, s.pot, TRUE, 0)>>
    \o (IF Len(s.community_cards) < 5
        THEN <<PokerGameState(s.hand, s.community_cards \o new_cards,
                              s.pot + s.current_bet, FALSE, 0)>>
             \o [i \in DOMAIN RaiseAmounts |->
                    PokerGameState(s.hand, s.community_cards \o new_cards,
                                   s.pot + RaiseAmounts[i], FALSE, 0)]
        ELSE <<PokerGameState(s.hand, s.community_cards,
                              s.pot + s.current_bet, TRUE, 0)>>)

\* legal_moves(), given the cards new_cards its Deck() draws produce (read
\* only when fewer than 5 community cards are out).
legal_moves(s, new_cards) ==
    <<PokerGameState(s.hand, s.community_cards, s.pot, TRUE, 0)>>
    \o (IF Len(s.community_cards) < 5
        THEN <<PokerGameState(s.hand, s.community_cards \o new_cards,
                              s.pot + s.current_bet, FALSE, 0)>>
             \o [i \in DOMAIN RaiseAmounts |->
                    PokerGameState(s.hand, s.community_cards \o new_cards,
                                   s.pot + s.current_bet + RaiseAmounts[i], FALSE, 0)]
        ELSE <<PokerGameState(s.hand, s.community_cards,
                              s.pot + s.current_bet, TRUE, 0)>>)

\* len(self.state.legal_moves()): the draws do not change the length.
NumLegalMoves(s) ==
    Len(legal_moves(s, [i \in 1..(5 - Len(s.community_cards)) |-> DeckOrder[1]]))

\* is_terminal reading the flag alone.
is_terminal_flag_only(s) == s.is_terminal_state

\* is_terminal testing for at least five community cards.
is_terminal_at_least_5(s) == s.is_terminal_state \/ Len(s.community_cards) >= 5

is_terminal(s) == s.is_terminal_state \/ Len(s.community_cards) = 5

winning_hands == {"Straight Flush", "Four of a Kind", "Full House", "Flush"}

\* game_result counting every hand better than a high card as a win.
game_result_made_hand(s) ==
    LET ph == PokerHand(s.hand \o s.community_cards)
    IN  IF ph.rank # "High Card" THEN 1 ELSE -1

game_result(s) ==
    LET ph == PokerHand(s.hand \o s.community_cards)
    IN  IF ph.rank \in winning_hands THEN 1 ELSE -1

---------------------------------------------------------------------------
(* The values the variables of an operation hold in the specifications     *)
(* that do not exercise it.                                                *)

HandIdle ==
    /\ cards = <<>>
    /\ rank = "none"
    /\ self_cards = <<>>
    /\ ranked = <<>>

DeckIdle ==
    /\ deck_cards = <<>>
    /\ drawn = <<>>
    /\ raised = "none"

MovesIdle ==
    /\ gs = PokerGameState(<<>>, <<>>, 0, FALSE, 0)
    /\ path = <<>>
    /\ called = FALSE
    /\ moves = <<>>
    /\ result = <<>>
    /\ depth = 0

ShowIdle ==
    /\ table = [player_hand |-> <<>>, ai_hand |-> <<>>, community_cards |-> <<>>]
    /\ winner = "none"

MctsIdle ==
    /\ tree = <<>>
    /\ node = 0
    /\ iter = 0
    /\ outcome = 0
    /\ pc = "idle"
    /\ chosen = "none"

---------------------------------------------------------------------------
(* SpecHand: PokerHand(cards) on bounded inputs                            *)

PoolOrder == <<Card("2", "Clubs"), Card("2", "Diamonds"), Card("3", "Clubs"),
               Card("3", "Diamonds"), Card("4", "Clubs"), Card("4", "Hearts")>>

PoolCards == {PoolOrder[i] : i \in 1..PoolSize}

\* Every sequence of at most MaxCards cards of the pool (repeats included:
\* the evaluator does not assume distinct cards).
PoolHands == UNION {[1..n -> PoolCards] : n \in 0..MaxCards}

\* The rank-index sets a five-card straight can have: nine runs and the wheel.
StraightRuns == {RangeList(lo, lo + 5) : lo \in 0..8} \cup {<<0, 1, 2, 3, 12>>}

\* Five cards holding one straight run in any order, all of suit s except
\* that position p (0: none) holds suit t.
RunHand(run, perm, s, p, t) ==
    [i \in 1..5 |-> Card(ranks[run[perm[i]] + 1], IF i = p THEN t ELSE s)]

\* TRUE of the inputs of SpecHand that hold a straight run.
IsRunHand(cs) ==
    \E run \in StraightRuns, perm \in Permutations(1..5), s \in DOMAIN suits,
       pt \in {<<0, 1>>} \cup ((1..5) \X DOMAIN suits) :
        cs = RunHand(run, perm, suits[s], pt[1], suits[pt[2]])

\* The orders the cards of the inputs below come in.
Orders == {<<1, 2, 3, 4, 5>>, <<5, 4, 3, 2, 1>>, <<3, 1, 5, 2, 4>>}

\* The two lowest runs: the wheel A-2-3-4-5 and 2-3-4-5-6.
LowRuns == {<<0, 1, 2, 3, 12>>, <<0, 1, 2, 3, 4>>}

\* Five cards holding one run, the card in position i of suit suits[sv[i]].
SuitedRun(run, perm, sv) ==
    [i \in 1..5 |-> Card(ranks[run[perm[i]] + 1], suits[sv[i]])]

\* TRUE of the inputs that hold a low run in every assignment of suits.
IsSuitedRun(cs) ==
    \E run \in LowRuns, perm \in Orders, sv \in [1..5 -> DOMAIN suits] :
        cs = SuitedRun(run, perm, sv)

\* The one or two cards that follow a run in an input of 6 or 7 cards.
Extras == UNION {[1..n -> PoolCards] : n \in 1..2}

\* TRUE of the inputs of 6 or 7 cards that hold a straight run.
IsLongRunHand(cs) ==
    \E run \in StraightRuns, perm \in Orders, s \in DOMAIN suits,
       pt \in {<<0, 1>>} \cup ((1..5) \X DOMAIN suits), e \in Extras :
        cs = RunHand(run, perm, suits[s], pt[1], suits[pt[2]]) \o e

\* Hands of the scenarios the game is described with: hole cards followed by
\* the board.
ScenarioHands ==
    {<<Card("2", "Clubs"), Card("7", "Diamonds"), Card("9", "Hearts"),
       Card("J", "Spades"), Card("4", "Diamonds"), Card("K", "Clubs"),
       Card("3", "Clubs")>>,
     <<Card("A", "Spades"), Card("K", "Spades"), Card("Q", "Spades"),
       Card("J", "Spades"), Card("10", "Spades")>>,
     <<Card("2", "Spades"), Card("3", "Spades"), Card("4", "Spades"),
       Card("5", "Spades"), Card("6", "Hearts"), Card("2", "Diamonds")>>,
     <<Card("9", "Clubs"), Card("9", "Diamonds"), Card("K", "Hearts"),
       Card("K", "Spades"), Card("4", "Diamonds"), Card("A", "Clubs"),
       Card("3", "Clubs")>>,
     <<Card("Q", "Clubs"), Card("Q", "Diamonds"), Card("5", "Hearts"),
       Card("5", "Spades"), Card("A", "Diamonds"), Card("7", "Clubs"),
       Card("3", "Clubs")>>}

HandInit ==
    /\ mode = "hand"
    /\ \/ cards \in PoolHands
       \/ IsRunHand(cards)
       \/ IsSuitedRun(cards)
       \/ IsLongRunHand(cards)
       \/ cards \in ScenarioHands
    /\ rank = "none"
    /\ self_cards = <<>>
    /\ ranked = <<>>
    /\ DeckIdle /\ MovesIdle /\ ShowIdle /\ MctsIdle

\* hand = PokerHand(cards): the constructor sorts and evaluates.
Construct ==
    /\ mode = "hand"
    /\ rank = "none"
    /\ rank' = PokerHand(cards).rank
    /\ self_cards' = PokerHand(cards).cards
    /\ UNCHANGED <<mode, cards, ranked, deckVars, movesVars, showVars, mctsVars>>

HandNext == Construct

SpecHand == HandInit /\ [][HandNext]_vars

---------------------------------------------------------------------------
(* SpecDeck: a Deck and its draw_card calls                                *)

\* random.shuffle(self.cards): some permutation of the 52 cards. The model
\* takes the permutations that put card (i * m) mod 53 of DeckOrder in
\* position i, for the strides m from 1 (the order unchanged) upwards.
Shuffled(m) ==
    [i \in DOMAIN DeckOrder |-> DeckOrder[(i * m) % (Len(DeckOrder) + 1)]]

ShuffledDecks == {Shuffled(m) : m \in 1..ShuffleStrides}

\* list.pop() taking the first element.
pop_front(cs) == [item |-> cs[1], rest |-> SubSeq(cs, 2, Len(cs))]

\* self.cards.pop() of a list that is not empty: the last element, and the
\* list without it.
pop(cs) == [item |-> cs[Len(cs)], rest |-> SubSeq(cs, 1, Len(cs) - 1)]

\* deck = Deck()
DeckInit ==
    /\ mode = "deck"
    /\ deck_cards \in ShuffledDecks
    /\ drawn = <<>>
    /\ raised = "none"
    /\ HandIdle /\ MovesIdle /\ ShowIdle /\ MctsIdle

\* deck.draw_card(): pop() of an empty list raises IndexError.
DrawCard ==
    /\ mode = "deck"
    /\ raised = "none"
    /\ IF deck_cards = <<>>
       THEN /\ raised' = "IndexError"
            /\ UNCHANGED <<deck_cards, drawn>>
       ELSE /\ deck_cards' = pop(deck_cards).rest
            /\ drawn' = Append(drawn, pop(deck_cards).item)
            /\ raised' = raised
    /\ UNCHANGED <<mode, handVars, movesVars, showVars, mctsVars>>

DeckNext == DrawCard

SpecDeck == DeckInit /\ [][DeckNext]_vars

---------------------------------------------------------------------------
(* SpecFinal: the PokerHand of src/6_poker_holdem_final.py (the same class *)
(* is in src/5_poker_holdem_addrules.py). Its Counter and suit predicates  *)
(* compute what those of src/10_poker_AI_GPT.py compute; is_straight reads *)
(* ranks[0] of the sorted list, and evaluate_hand returns a pair.          *)

is_straight_final(cs) ==
    LET sorted_ranks == SortAsc([i \in DOMAIN cs |-> RankIndex(cs[i])])
    IN  \/ sorted_ranks = RangeList(sorted_ranks[1], sorted_ranks[1] + 5)
        \/ sorted_ranks = <<0, 1, 2, 3, 12>>

is_straight_flush_final(cs) == is_straight_final(cs) /\ is_flush(cs)

\* evaluate_hand pairing the category with the rank of the last card.
evaluate_hand_final_last_card(cs) ==
    <<evaluate_hand(cs), cs[Len(cs)].rank>>

\* evaluate_hand: (category, self.cards[0].rank) in every branch.
evaluate_hand_final(cs) ==
    IF is_straight_flush_final(cs) THEN <<"Straight Flush", cs[1].rank>>
    ELSE IF is_four_of_a_kind(cs) THEN <<"Four of a Kind", cs[1].rank>>
    ELSE IF is_full_house(cs) THEN <<"Full House", cs[1].rank>>
    ELSE IF is_flush(cs) THEN <<"Flush", cs[1].rank>>
    ELSE IF is_straight_final(cs) THEN <<"Straight", cs[1].rank>>
    ELSE IF is_three_of_a_kind(cs) THEN <<"Three of a Kind", cs[1].rank>>
    ELSE IF is_two_pair(cs) THEN <<"Two Pair", cs[1].rank>>
    ELSE IF is_one_pair(cs) THEN <<"One Pair", cs[1].rank>>
    ELSE <<"High Card", cs[1].rank>>

\* PokerHand(cards) of this file. Of an empty list ranks[0] raises IndexError
\* inside is_straight and no object is constructed.
PokerHandFinal(cs) ==
    IF cs = <<>> THEN [cards |-> <<>>, rank |-> <<"IndexError">>]
    ELSE LET sorted == SortDesc(cs)
         IN  [cards |-> sorted, rank |-> evaluate_hand_final(sorted)]

FinalInit ==
    /\ mode = "final"
    /\ \/ cards \in PoolHands
       \/ IsSuitedRun(cards)
       \/ IsLongRunHand(cards)
       \/ cards \in ScenarioHands
    /\ rank = "none"
    /\ self_cards = <<>>
    /\ ranked = <<>>
    /\ DeckIdle /\ MovesIdle /\ ShowIdle /\ MctsIdle

\* hand = PokerHand(cards) with the class of this file.
ConstructFinal ==
    /\ mode = "final"
    /\ ranked = <<>>
    /\ ranked' = PokerHandFinal(cards).rank
    /\ self_cards' = PokerHandFinal(cards).cards
    /\ UNCHANGED <<mode, cards, rank, deckVars, movesVars, showVars, mctsVars>>

FinalNext == ConstructFinal

SpecFinal == FinalInit /\ [][FinalNext]_vars

---------------------------------------------------------------------------
(* SpecMoves: legal_moves, is_terminal and game_result on bounded states   *)

RootHands ==
    {<<Card("A", "Spades"), Card("K", "Spades")>>,
     <<Card("2", "Clubs"), Card("7", "Diamonds")>>,
     <<Card("A", "Clubs"), Card("A", "Diamonds")>>}

Boards ==
    {<<Card("Q", "Spades"), Card("J", "Spades"), Card("10", "Spades"),
       Card("9", "Spades"), Card("8", "Spades"), Card("7", "Spades")>>,
     <<Card("9", "Hearts"), Card("J", "Spades"), Card("4", "Diamonds"),
       Card("K", "Clubs"), Card("3", "Clubs"), Card("2", "Hearts")>>,
     <<Card("A", "Hearts"), Card("5", "Spades"), Card("9", "Diamonds"),
       Card("K", "Diamonds"), Card("5", "Diamonds"), Card("5", "Clubs")>>}

\* The community cards of a constructed state: the first k cards of a board.
RootCommunity == {SubSeq(b, 1, k) : b \in Boards, k \in 0..6}

RootPots == {0, 100}
RootBets == {-10, 0, 10}

\* The states a caller constructs with PokerGameState(...).
RootStates ==
    {PokerGameState(h, c, p, f, b) :
        h \in RootHands, c \in RootCommunity, p \in RootPots,
        f \in BOOLEAN, b \in RootBets}

MovesInit ==
    /\ mode = "moves"
    /\ gs \in RootStates
    /\ path = <<>>
    /\ called = FALSE
    /\ moves = <<>>
    /\ result = <<>>
    /\ depth = 0
    /\ HandIdle /\ DeckIdle /\ ShowIdle /\ MctsIdle

\* moves = gs.legal_moves()
CallLegalMoves ==
    /\ mode = "moves"
    /\ ~called
    /\ called' = TRUE
    /\ \E new_cards \in NewCards(5 - Len(gs.community_cards), DeckTop) :
          moves' = legal_moves(gs, new_cards)
    /\ UNCHANGED <<mode, gs, path, result, depth, handVars, deckVars, showVars, mctsVars>>

\* result = gs.game_result()
CallGameResult ==
    /\ mode = "moves"
    /\ result = <<>>
    /\ result' = <<game_result(gs)>>
    /\ UNCHANGED <<mode, gs, path, called, moves, depth, handVars, deckVars, showVars, mctsVars>>

\* gs = moves[i]: follow one successor, as a caller walking a chain does.
Descend ==
    /\ mode = "moves"
    /\ depth < MaxDepth
    /\ called
    /\ \E i \in DOMAIN moves : gs' = moves[i]
    /\ called' = FALSE
    /\ moves' = <<>>
    /\ result' = <<>>
    /\ depth' = depth + 1
    /\ path' = Append(path, gs)
    /\ UNCHANGED <<mode, handVars, deckVars, showVars, mctsVars>>

MovesNext == CallLegalMoves \/ CallGameResult \/ Descend

SpecMoves == MovesInit /\ [][MovesNext]_vars

---------------------------------------------------------------------------
(* SpecShowdown: determine_winner                                          *)

\* The code points of the strings evaluate_hand returns: Python compares
\* two str values code point by code point.
CodePoints ==
    [c \in {"High Card", "One Pair", "Two Pair", "Three of a Kind", "Straight",
            "Flush", "Full House", "Four of a Kind", "Straight Flush"} |->
        CASE c = "High Card" -> <<72, 105, 103, 104, 32, 67, 97, 114, 100>> []
             c = "One Pair" -> <<79, 110, 101, 32, 80, 97, 105, 114>> []
             c = "Two Pair" -> <<84, 119, 111, 32, 80, 97, 105, 114>> []
             c = "Three of a Kind" ->
                 <<84, 104, 114, 101, 101, 32, 111, 102, 32, 97, 32, 75, 105, 110, 100>> []
             c = "Straight" -> <<83, 116, 114, 97, 105, 103, 104, 116>> []
             c = "Flush" -> <<70, 108, 117, 115, 104>> []
             c = "Full House" -> <<70, 117, 108, 108, 32, 72, 111, 117, 115, 101>> []
             c = "Four of a Kind" ->
                 <<70, 111, 117, 114, 32, 111, 102, 32, 97, 32, 75, 105, 110, 100>> []
             c = "Straight Flush" ->
                 <<83, 116, 114, 97, 105, 103, 104, 116, 32, 70, 108, 117, 115, 104>>]

RECURSIVE SeqGreater(_, _)
\* a > b for two sequences of code points: decided by the first position
\* where they differ; a proper prefix is the smaller.
SeqGreater(a, b) ==
    IF a = <<>> THEN FALSE
    ELSE IF b = <<>> THEN TRUE
    ELSE IF Head(a) # Head(b) THEN Head(a) > Head(b)
    ELSE SeqGreater(Tail(a), Tail(b))

\* x > y for two of the strings evaluate_hand returns.
StrGreater(x, y) == SeqGreater(CodePoints[x], CodePoints[y])

\* determine_winner(player_hand, ai_hand, community_cards): each hand is
\* constructed, then evaluate_hand() is called again on its sorted cards.
determine_winner(player_hand, ai_hand, community_cards) ==
    LET player_poker_hand == PokerHand(player_hand \o community_cards)
        ai_poker_hand == PokerHand(ai_hand \o community_cards)
        player_rank == evaluate_hand(player_poker_hand.cards)
        ai_rank == evaluate_hand(ai_poker_hand.cards)
    IN  IF StrGreater(player_rank, ai_rank) THEN "Player wins!"
        ELSE IF StrGreater(ai_rank, player_rank) THEN "AI wins!"
        ELSE "It's a tie!"

\* Hole cards of the two players.
HoleHands ==
    {<<Card("A", "Spades"), Card("K", "Spades")>>,
     <<Card("2", "Clubs"), Card("7", "Diamonds")>>,
     <<Card("A", "Clubs"), Card("A", "Diamonds")>>,
     <<Card("9", "Clubs"), Card("9", "Diamonds")>>,
     <<Card("5", "Hearts"), Card("6", "Hearts")>>,
     <<Card("K", "Hearts"), Card("5", "Clubs")>>,
     <<Card("3", "Spades"), Card("4", "Spades")>>}

\* Community cards on the table: the first 3, 4 or 5 cards of a board.
ShowdownBoards ==
    {<<Card("Q", "Spades"), Card("J", "Spades"), Card("10", "Spades"),
       Card("9", "Spades"), Card("8", "Spades")>>,
     <<Card("9", "Hearts"), Card("J", "Spades"), Card("4", "Diamonds"),
       Card("K", "Clubs"), Card("3", "Clubs")>>,
     <<Card("A", "Hearts"), Card("5", "Spades"), Card("9", "Diamonds"),
       Card("K", "Diamonds"), Card("5", "Diamonds")>>,
     <<Card("7", "Hearts"), Card("8", "Hearts"), Card("9", "Hearts"),
       Card("2", "Hearts"), Card("2", "Spades")>>,
     <<Card("4", "Clubs"), Card("4", "Hearts"), Card("4", "Diamonds"),
       Card("7", "Spades"), Card("7", "Clubs")>>}

ShowdownCommunity == {SubSeq(b, 1, k) : b \in ShowdownBoards, k \in 3..5}

\* The arguments of a call: the cards dealt from one deck, no card twice.
ShowdownTables ==
    {t \in [player_hand : HoleHands, ai_hand : HoleHands,
            community_cards : ShowdownCommunity] :
        Cardinality(Range(t.player_hand \o t.ai_hand \o t.community_cards))
            = 4 + Len(t.community_cards)}

ShowdownInit ==
    /\ mode = "showdown"
    /\ table \in ShowdownTables
    /\ winner = "none"
    /\ HandIdle /\ DeckIdle /\ MovesIdle /\ MctsIdle

\* winner = determine_winner(player_hand, ai_hand, community_cards)
DetermineWinner ==
    /\ mode = "showdown"
    /\ winner = "none"
    /\ winner' = determine_winner(table.player_hand, table.ai_hand,
                                  table.community_cards)
    /\ UNCHANGED <<mode, table, handVars, deckVars, movesVars, mctsVars>>

ShowdownNext == DetermineWinner

SpecShowdown == ShowdownInit /\ [][ShowdownNext]_vars

---------------------------------------------------------------------------
(* Node                                                                    *)

\* Node.__init__: parent is an index of tree, 0 for None.
Node(state, parent) ==
    [state |-> state, parent |-> parent, children |-> <<>>, wins |-> 0, visits |-> 0]

\* Node.add_child on tree[n]: the child is the next object created.
add_child(t, n, child_state) ==
    Append([t EXCEPT ![n].children = Append(@, Len(t) + 1)], Node(child_state, n))

\* update that adds the result to wins twice.
update_result_twice(t, n, res) ==
    [t EXCEPT ![n].visits = @ + 1, ![n].wins = @ + res + res]

\* update that accumulates the result and leaves visits alone.
update_wins_only(t, n, res) ==
    [t EXCEPT ![n].wins = @ + res]

\* update that subtracts the result from wins.
update_negated(t, n, res) ==
    [t EXCEPT ![n].visits = @ + 1, ![n].wins = @ - res]

\* Node.update on tree[n]
update(t, n, res) ==
    [t EXCEPT ![n].visits = @ + 1, ![n].wins = @ + res]

\* Node.fully_expanded on tree[n]
fully_expanded(t, n) == Len(t[n].children) = NumLegalMoves(t[n].state)

\* a.wins / a.visits < b.wins / b.visits, both visits positive: the quotients
\* of integers this small are distinct floats exactly when they differ.
RatioLess(a, b) == a.wins * b.visits < b.wins * a.visits

\* best_child keeping the first child of least wins/visits.
best_child_min(t, n) ==
    LET ch == t[n].children
    IN  {ch[i] : i \in {j \in DOMAIN ch :
            /\ \A k \in DOMAIN ch : ~RatioLess(t[ch[k]], t[ch[j]])
            /\ \A k \in 1..(j - 1) : RatioLess(t[ch[j]], t[ch[k]])}}

\* best_child raises instead of returning: max() of no children, a child
\* with visits = 0 (ZeroDivisionError) or, off the root, math.log(0).
best_child_raises(t, n) ==
    \/ t[n].children = <<>>
    \/ \E i \in DOMAIN t[n].children : t[t[n].children[i]].visits = 0
    \/ t[n].parent # 0 /\ t[t[n].parent].visits = 0

\* What best_child can return on tree[n] when it does not raise. On the root
\* max() keeps the first child of greatest wins/visits. Off the root the key
\* adds 1.41*sqrt(log(parent.visits)/visits), which is not computed here:
\* every child that no other child beats on both terms may be returned.
best_child(t, n) ==
    LET ch == t[n].children
    IN  IF t[n].parent = 0
        THEN {ch[i] : i \in {j \in DOMAIN ch :
                 /\ \A k \in DOMAIN ch : ~RatioLess(t[ch[j]], t[ch[k]])
                 /\ \A k \in 1..(j - 1) : RatioLess(t[ch[k]], t[ch[j]])}}
        ELSE {ch[i] : i \in {j \in DOMAIN ch :
                 ~\E k \in DOMAIN ch :
                     /\ RatioLess(t[ch[j]], t[ch[k]])
                     /\ t[ch[k]].visits <= t[ch[j]].visits}}

---------------------------------------------------------------------------
(* MCTS                                                                    *)

\* Every list legal_moves() can return for s, over the draws of its Decks.
AllLegalMoves(s) ==
    {legal_moves(s, nc) : nc \in NewCards(5 - Len(s.community_cards), DeckTop)}

RECURSIVE simulate_random_game(_)
\* The values simulate_random_game(s) can return: a random legal move is
\* played until the state is terminal.
simulate_random_game(s) ==
    IF is_terminal(s) THEN {game_result(s)}
    ELSE UNION {UNION {simulate_random_game(lm[i]) : i \in DOMAIN lm} :
                    lm \in AllLegalMoves(s)}

---------------------------------------------------------------------------
(* SpecRollout: MCTS.simulate_random_game, one action per pass of its loop *)
(* and one for its return. gs is current_state, path the states it has     *)
(* left, moves the last possible_moves, result the value returned.         *)

RolloutInit ==
    /\ mode = "rollout"
    /\ gs \in RootStates
    /\ path = <<>>
    /\ called = FALSE
    /\ moves = <<>>
    /\ result = <<>>
    /\ depth = 0
    /\ HandIdle /\ DeckIdle /\ ShowIdle /\ MctsIdle

\* One pass of the while loop: possible_moves = current_state.legal_moves();
\* current_state = random.choice(possible_moves)
RolloutMove ==
    /\ mode = "rollout"
    /\ result = <<>>
    /\ ~is_terminal(gs)
    /\ \E lm \in AllLegalMoves(gs) :
          /\ moves' = lm
          /\ \E i \in DOMAIN lm : gs' = lm[i]
    /\ path' = Append(path, gs)
    /\ depth' = depth + 1
    /\ UNCHANGED <<mode, called, result, handVars, deckVars, showVars, mctsVars>>

\* The loop has ended: return current_state.game_result()
RolloutReturn ==
    /\ mode = "rollout"
    /\ result = <<>>
    /\ is_terminal(gs)
    /\ result' = <<game_result(gs)>>
    /\ UNCHANGED <<mode, gs, path, called, moves, depth, handVars, deckVars,
                   showVars, mctsVars>>

RolloutNext == RolloutMove \/ RolloutReturn

\* The return step without its value computed: some -1 or 1 is returned.
\* It is enabled exactly when RolloutReturn is, and every RolloutReturn step
\* is one.
RolloutReturnStep ==
    /\ mode = "rollout"
    /\ result = <<>>
    /\ is_terminal(gs)
    /\ result' \in {<<-1>>, <<1>>}
    /\ UNCHANGED <<mode, gs, path, called, moves, depth, handVars, deckVars,
                   showVars, mctsVars>>

\* The call runs on: while a pass of the loop or the return can be taken,
\* one is taken (nothing in the loop blocks or waits).
SpecRollout ==
    RolloutInit /\ [][RolloutNext]_vars /\ WF_vars(RolloutMove \/ RolloutReturnStep)

\* a == b for two PokerGameState objects: the class defines neither __eq__
\* nor __hash__, and a state legal_moves() has just built is a new object.
StateEq(a, b) == FALSE

\* set(node.state.legal_moves()) - set(child.state for child in node.children),
\* as positions of the list lm that legal_moves() returned.
Unexpanded(t, n, lm) ==
    {i \in DOMAIN lm :
        ~\E k \in DOMAIN t[n].children : StateEq(lm[i], t[t[n].children[k]].state)}

\* The states a caller hands to choose_move: one hand on one board at the
\* turn (not terminal, and flagged terminal), and every hand on its board at
\* the river and with a sixth card, flagged or not.
SearchHands ==
    {<<<<Card("A", "Spades"), Card("K", "Spades")>>,
       <<Card("Q", "Spades"), Card("J", "Spades"), Card("10", "Spades"),
         Card("9", "Spades"), Card("8", "Spades"), Card("7", "Spades")>>>>,
     <<<<Card("2", "Clubs"), Card("7", "Diamonds")>>,
       <<Card("9", "Hearts"), Card("J", "Spades"), Card("4", "Diamonds"),
         Card("K", "Clubs"), Card("3", "Clubs"), Card("2", "Hearts")>>>>,
     <<<<Card("A", "Clubs"), Card("A", "Diamonds")>>,
       <<Card("A", "Hearts"), Card("5", "Spades"), Card("9", "Diamonds"),
         Card("K", "Diamonds"), Card("5", "Diamonds"), Card("5", "Clubs")>>>>}

SearchRoots ==
    {PokerGameState(hb[1], SubSeq(hb[2], 1, k), 100, f, 10) :
        hb \in SearchHands, k \in {5, 6}, f \in BOOLEAN}
    \cup
    {PokerGameState(<<Card("A", "Clubs"), Card("A", "Diamonds")>>,
                    <<Card("A", "Hearts"), Card("5", "Spades"),
                      Card("9", "Diamonds"), Card("K", "Diamonds")>>, 100, f, 10) :
        f \in BOOLEAN}

Init ==
    /\ mode = "mcts"
    /\ \E s \in SearchRoots : tree = <<Node(s, 0)>>
    /\ node = 1
    /\ iter = 0
    /\ outcome = 0
    /\ pc = "select"
    /\ chosen = "none"
    /\ HandIdle /\ DeckIdle /\ MovesIdle /\ ShowIdle

\* The condition of the Selection loop at node n.
SelectionContinues(t, n) == fully_expanded(t, n) /\ ~is_terminal(t[n].state)

\* Selection, one pass of the while loop: node = node.best_child()
Select ==
    /\ pc = "select"
    /\ SelectionContinues(tree, node)
    /\ IF best_child_raises(tree, node)
       THEN pc' = "error" /\ node' = node
       ELSE pc' = pc /\ node' \in best_child(tree, node)
    /\ UNCHANGED <<mode, tree, iter, outcome, chosen, handVars, deckVars, movesVars, showVars>>

\* Selection has stopped at a node that is not fully expanded: Expansion
\* makes a random state of the set difference a new child.
Expand ==
    /\ pc = "select"
    /\ ~SelectionContinues(tree, node)
    /\ ~fully_expanded(tree, node)
    /\ \E lm \in AllLegalMoves(tree[node].state) :
          \E i \in Unexpanded(tree, node, lm) :
             /\ tree' = add_child(tree, node, lm[i])
             /\ node' = Len(tree) + 1
    /\ pc' = "simulate"
    /\ UNCHANGED <<mode, iter, outcome, chosen, handVars, deckVars, movesVars, showVars>>

\* Selection has stopped at a fully expanded node: Expansion is skipped.
NoExpand ==
    /\ pc = "select"
    /\ ~SelectionContinues(tree, node)
    /\ fully_expanded(tree, node)
    /\ pc' = "simulate"
    /\ UNCHANGED <<mode, tree, node, iter, outcome, chosen, handVars, deckVars, movesVars, showVars>>

\* Simulation: outcome = self.simulate_random_game(node.state)
Simulate ==
    /\ pc = "simulate"
    /\ outcome' \in simulate_random_game(tree[node].state)
    /\ pc' = "backprop"
    /\ UNCHANGED <<mode, tree, node, iter, chosen, handVars, deckVars, movesVars, showVars>>

\* Backpropagation, one pass of the while loop: node.update(outcome), then
\* node = node.parent. When that is None the for loop takes its next pass
\* from the root, or ends after NumSimulations passes.
Backprop ==
    /\ pc = "backprop"
    /\ tree' = update(tree, node, outcome)
    /\ IF tree[node].parent # 0
       THEN node' = tree[node].parent /\ pc' = pc /\ iter' = iter
       ELSE /\ iter' = iter + 1
            /\ node' = 1
            /\ pc' = IF iter + 1 < NumSimulations THEN "select" ELSE "return"
    /\ UNCHANGED <<mode, outcome, chosen, handVars, deckVars, movesVars, showVars>>

\* return root.best_child().state
Return ==
    /\ pc = "return"
    /\ IF best_child_raises(tree, 1)
       THEN pc' = "error" /\ chosen' = chosen
       ELSE pc' = "done" /\ \E c \in best_child(tree, 1) : chosen' = tree[c].state
    /\ UNCHANGED <<mode, tree, node, iter, outcome, handVars, deckVars, movesVars, showVars>>

Next ==
    \/ Select
    \/ Expand
    \/ NoExpand
    \/ Simulate
    \/ Backprop
    \/ Return

Spec == Init /\ [][Next]_vars

---------------------------------------------------------------------------
(* Claims about MCTS.choose_move, checked under Spec                       *)

\* The children of the root, as Node records in list order.
RootChild(i) == tree[tree[1].children[i]]

\* C1: when choose_move returns it has made exactly NumSimulations passes of
\* its loop from the fresh root, the root has been visited once per pass,
\* and the state returned is that of a child of the root whose wins/visits
\* is greatest among all the root's children.
C1_BudgetThenBestChild ==
    pc = "done" =>
        /\ iter = NumSimulations
        /\ tree[1].visits = NumSimulations
        /\ \E i \in DOMAIN tree[1].children :
              /\ chosen = RootChild(i).state
              /\ \A j \in DOMAIN tree[1].children :
                    /\ RootChild(j).visits > 0
                    /\ RootChild(j).wins * RootChild(i).visits
                           <= RootChild(i).wins * RootChild(j).visits

\* choose_move has returned from a root that was not terminal, the root is
\* fully expanded and its children do not all have the same wins/visits.
C1_Witness ==
    /\ pc = "done"
    /\ ~is_terminal(tree[1].state)
    /\ Len(tree[1].children) = 5
    /\ \E i, j \in DOMAIN tree[1].children :
          RootChild(j).wins * RootChild(i).visits
              < RootChild(i).wins * RootChild(j).visits

\* C2: called on a state that is already terminal, choose_move fails at once
\* or returns that same state: the terminal root gets no children and no
\* successor of it is returned.
C2_TerminalRootLeftAlone ==
    (mode = "mcts" /\ is_terminal(tree[1].state)) =>
        /\ tree[1].children = <<>>
        /\ pc = "done" => chosen = tree[1].state

\* C3: whenever best_child is about to evaluate wins/visits over the children
\* of a node (a pass of the Selection loop, or the final recommendation), the
\* node has a child and each of its children has visits >= 1; best_child
\* never raises.
C3_BestChildNeverDividesByZero ==
    /\ pc # "error"
    /\ \A n \in DOMAIN tree :
          (\/ pc = "select" /\ n = node /\ SelectionContinues(tree, n)
           \/ pc = "return" /\ n = 1)
          => /\ tree[n].children # <<>>
             /\ \A i \in DOMAIN tree[n].children :
                   tree[tree[n].children[i]].visits >= 1

\* Selection is about to call best_child on the fully expanded root in the
\* middle of a run.
C3_Witness ==
    /\ pc = "select"
    /\ node = 1
    /\ SelectionContinues(tree, 1)
    /\ iter >= 5

\* The pots of the states of the children of tree[n], in list order.
ChildPots(n) == [i \in DOMAIN tree[n].children |-> tree[tree[n].children[i]].state.pot]

\* C16: no two children of a node stand for the same successor of its state,
\* and the children of a fully expanded node stand for all of them. Of a
\* state with a positive current_bet the successors (fold, call, raises, or
\* fold and showdown) have pairwise different pots, so there the children
\* have pairwise different pots, and all the successors' pots once the node
\* is fully expanded.
C16_ChildrenAreDistinctSuccessors ==
    \A n \in DOMAIN tree :
        tree[n].state.current_bet > 0 =>
            /\ \A i, j \in DOMAIN tree[n].children :
                  i # j => ChildPots(n)[i] # ChildPots(n)[j]
            /\ fully_expanded(tree, n) =>
                  \A lm \in AllLegalMoves(tree[n].state) :
                      Range(ChildPots(n)) = {lm[k].pot : k \in DOMAIN lm}

\* The UCB1 value wins/visits + 1.41 * sqrt(ln(N) / visits) of child k of
\* tree[p] is certainly greater than that of child j, N the visits of
\* tree[p]: with N >= 2 the exploration term is positive and strictly
\* greater for the child visited less, and k's wins/visits is no smaller.
UCB1SurelyGreater(p, k, j) ==
    /\ tree[p].visits >= 2
    /\ tree[k].visits >= 1
    /\ tree[k].visits < tree[j].visits
    /\ ~RatioLess(tree[k], tree[j])

\* C17: the child a Selection step descends into, from the root too, has the
\* greatest UCB1 value among the children of the node left: no other child's
\* value is certainly greater.
C17_SelectionMaximisesUCB1 ==
    (pc = "select" /\ node # 1) =>
        \A i \in DOMAIN tree[tree[node].parent].children :
            ~UCB1SurelyGreater(tree[node].parent,
                               tree[tree[node].parent].children[i], node)

\* C18: a pass of the Backpropagation loop adds 1 to visits and the outcome,
\* as simulated, to wins at the current node and changes nothing else of the
\* tree: no other node's visits or wins, no children list. It starts at the
\* node that was simulated, moves to the parent, and ends after the node
\* without parent, the root.
C18_BackpropagationFrame ==
    [][/\ pc = "simulate" => (node' = node /\ tree' = tree /\ pc' = "backprop")
       /\ pc = "backprop" =>
             /\ outcome' = outcome
             /\ DOMAIN tree' = DOMAIN tree
             /\ \A n \in DOMAIN tree :
                   /\ tree'[n].children = tree[n].children
                   /\ tree'[n].parent = tree[n].parent
                   /\ tree'[n].state = tree[n].state
                   /\ tree'[n].visits = tree[n].visits + (IF n = node THEN 1 ELSE 0)
                   /\ tree'[n].wins = tree[n].wins + (IF n = node THEN outcome ELSE 0)
             /\ IF tree[node].parent # 0
                THEN node' = tree[node].parent /\ pc' = "backprop"
                ELSE node = 1 /\ pc' # "backprop"]_vars

\* Backpropagation of a lost simulation has climbed from a node two levels
\* below the root and is about to update the root.
C18_Witness ==
    /\ pc = "backprop"
    /\ node = 1
    /\ outcome = -1
    /\ tree[1].visits = iter
    /\ tree[Len(tree)].parent > 1
    /\ tree[Len(tree)].visits = 1
    /\ tree[Len(tree)].wins = -1
    /\ tree[tree[Len(tree)].parent].visits >= 2

RECURSIVE Level(_)
\* How many parent links lead from tree[n] to the root.
Level(n) == IF tree[n].parent = 0 THEN 0 ELSE 1 + Level(tree[n].parent)

\* C21: in a run from a root that is not terminal, every node but the root
\* holds a terminal state; a pass of the Selection loop is only ever made at
\* the root, so best_child is only called on the node without parent (in
\* Selection and for the value returned) and never takes its branch with the
\* exploration term; and no node lies more than 2 levels below the root.
C21_ShallowTree ==
    (mode = "mcts" /\ ~is_terminal(tree[1].state)) =>
        /\ \A n \in DOMAIN tree : n # 1 => is_terminal(tree[n].state)
        /\ (pc = "select" /\ SelectionContinues(tree, node)) =>
              (node = 1 /\ tree[node].parent = 0)
        /\ pc = "select" => Level(node) <= 1
        /\ \A n \in DOMAIN tree : Level(n) <= 2

\* Selection has descended from the non-terminal root into a child that is
\* terminal and already has a child of its own, two levels below the root.
C21_Witness ==
    /\ pc = "select"
    /\ ~is_terminal(tree[1].state)
    /\ node # 1
    /\ tree[node].parent = 1
    /\ is_terminal(tree[node].state)
    /\ tree[node].children # <<>>
    /\ \E n \in DOMAIN tree : Level(n) = 2

RECURSIVE SumVisits(_)
\* The sum of the visits of the nodes whose indices the list ch holds.
SumVisits(ch) ==
    IF ch = <<>> THEN 0 ELSE tree[Head(ch)].visits + SumVisits(Tail(ch))

\* C22: between the passes of the for loop (after each completed pass, and
\* when choose_move returns) the root's visits is the number of completed
\* passes; every other node has visits >= 1; a node's visits is at least the
\* sum of its children's visits, and equal to it at a root that is not
\* terminal; and every node has -visits <= wins <= visits.
C22_VisitsAndWins ==
    (mode = "mcts" /\ pc \in {"select", "return", "done"}) =>
        /\ tree[1].visits = iter
        /\ \A n \in DOMAIN tree :
              /\ n # 1 => tree[n].visits >= 1
              /\ tree[n].visits >= SumVisits(tree[n].children)
              /\ -tree[n].visits <= tree[n].wins
              /\ tree[n].wins <= tree[n].visits
        /\ ~is_terminal(tree[1].state) =>
              tree[1].visits = SumVisits(tree[1].children)

\* All the passes are made from a root that is not terminal; a child of the
\* root has been visited more often than its own children together, and the
\* tree holds a node that won every visit and one that lost every visit.
C22_Witness ==
    /\ pc = "done"
    /\ iter = NumSimulations
    /\ ~is_terminal(tree[1].state)
    /\ \E n \in DOMAIN tree :
          /\ tree[n].parent = 1
          /\ tree[n].children # <<>>
          /\ tree[n].visits > SumVisits(tree[n].children)
    /\ \E n, m \in DOMAIN tree :
          /\ tree[n].visits >= 1 /\ tree[n].wins = tree[n].visits
          /\ tree[m].visits >= 1 /\ tree[m].wins = -tree[m].visits

---------------------------------------------------------------------------
(* Claims about PokerGameState, checked under SpecMoves                    *)

WinningCategories == {"Straight Flush", "Four of a Kind", "Full House", "Flush"}

\* C4: legal_moves() never returns an empty list; its first element keeps
\* the hand, the pot and the community cards of the state (the fold) and is
\* terminal, whatever the state.
C4_FoldFirstAndTerminal ==
    called =>
        /\ Len(moves) >= 1
        /\ moves[1].hand = gs.hand
        /\ moves[1].pot = gs.pot
        /\ moves[1].community_cards = gs.community_cards
        /\ moves[1].is_terminal_state
        /\ is_terminal(moves[1])

\* legal_moves() has returned for a fold successor, itself terminal.
C4_Witness ==
    /\ called
    /\ depth >= 1
    /\ gs.is_terminal_state
    /\ Len(gs.community_cards) < 5
    /\ Len(moves) = 5

\* C5: with k < 5 community cards legal_moves() returns five successors, the
\* fold, the call and the raises of 10, 20 and 50 in that order; the call and
\* the raises keep the hand and hold five community cards that start with
\* the state's own and are the same for all four. With exactly 5 community
\* cards it returns two successors, both flagged terminal, community cards
\* unchanged.
C5_SuccessorShape ==
    called =>
        LET k == Len(gs.community_cards)
        IN  /\ k < 5 =>
                /\ Len(moves) = 5
                /\ moves[1].community_cards = gs.community_cards
                /\ moves[1].is_terminal_state
                /\ \A i \in 2..5 :
                      /\ moves[i].hand = gs.hand
                      /\ Len(moves[i].community_cards) = 5
                      /\ SubSeq(moves[i].community_cards, 1, k) = gs.community_cards
                      /\ moves[i].community_cards = moves[2].community_cards
                /\ moves[3].pot - moves[2].pot = 10
                /\ moves[4].pot - moves[2].pot = 20
                /\ moves[5].pot - moves[2].pot = 50
            /\ k = 5 =>
                /\ Len(moves) = 2
                /\ \A i \in 1..2 :
                      /\ moves[i].is_terminal_state
                      /\ moves[i].hand = gs.hand
                      /\ moves[i].community_cards = gs.community_cards

\* legal_moves() has returned for a state on the flop that is not terminal.
C5_Witness ==
    /\ called
    /\ Len(gs.community_cards) = 3
    /\ ~gs.is_terminal_state
    /\ Len(moves[2].community_cards) = 5

\* C6: with k < 5 community cards the successors' pots are pot, pot + bet,
\* pot + bet + 10, pot + bet + 20, pot + bet + 50 in list order; with 5 the
\* showdown successor's pot is pot + bet. When the first state of a chain of
\* successors has a non-negative current_bet, the pot never decreases along
\* the chain.
C6_Pots ==
    LET k == Len(gs.community_cards)
        chain == path \o <<gs>>
    IN  /\ (called /\ k < 5) =>
              /\ moves[1].pot = gs.pot
              /\ moves[2].pot = gs.pot + gs.current_bet
              /\ moves[3].pot = gs.pot + gs.current_bet + 10
              /\ moves[4].pot = gs.pot + gs.current_bet + 20
              /\ moves[5].pot = gs.pot + gs.current_bet + 50
        /\ (called /\ k = 5) =>
              /\ moves[1].pot = gs.pot
              /\ moves[2].pot = gs.pot + gs.current_bet
        /\ (mode = "moves" /\ chain[1].current_bet >= 0) =>
              /\ \A i \in 1..(Len(chain) - 1) : chain[i].pot <= chain[i + 1].pot
              /\ called => \A i \in DOMAIN moves : gs.pot <= moves[i].pot

\* A chain of two successors from a root with a positive bet: a fold, then a
\* raise that has grown the pot, legal_moves() having returned at its end.
C6_Witness ==
    /\ called
    /\ depth = 2
    /\ path[1].current_bet > 0
    /\ path[1].pot = path[2].pot
    /\ path[2].pot + 50 = gs.pot
    /\ moves[2].pot = gs.pot

\* C7: is_terminal() is true exactly of the states flagged terminal and of
\* those with exactly 5 community cards; so the call and raise successors of
\* a state with fewer than 5 community cards are terminal without the flag.
C7_TerminalIff ==
    /\ mode = "moves" =>
          (is_terminal(gs) <=> (gs.is_terminal_state \/ Len(gs.community_cards) = 5))
    /\ \A i \in DOMAIN moves :
          /\ is_terminal(moves[i]) <=>
                (moves[i].is_terminal_state \/ Len(moves[i].community_cards) = 5)
          /\ (i >= 2 /\ Len(gs.community_cards) < 5) =>
                (is_terminal(moves[i]) /\ ~moves[i].is_terminal_state)

\* legal_moves() has returned for a state before the flop: its call and
\* raise successors are unflagged.
C7_Witness ==
    /\ called
    /\ Len(gs.community_cards) = 0
    /\ Len(moves) = 5
    /\ ~moves[2].is_terminal_state

\* C8: game_result() returns +1 or -1: +1 exactly when the category of the
\* hole cards with the community cards is Straight Flush, Four of a Kind,
\* Full House or Flush. Of the terminal state A-K of spades with Q-J-10 of
\* spades it returns +1.
C8_GameResult ==
    result # <<>> =>
        /\ result[1] \in {-1, 1}
        /\ result[1] = 1 <=>
              PokerHand(gs.hand \o gs.community_cards).rank \in WinningCategories
        /\ (/\ gs.hand = <<Card("A", "Spades"), Card("K", "Spades")>>
            /\ gs.community_cards = <<Card("Q", "Spades"), Card("J", "Spades"),
                                      Card("10", "Spades")>>)
              => /\ result[1] = 1
                 /\ PokerHand(gs.hand \o gs.community_cards).rank = "Straight Flush"

\* game_result() has returned +1 for the flagged state A-K of spades with
\* Q-J-10 of spades.
C8_Witness ==
    /\ result = <<1>>
    /\ gs.is_terminal_state
    /\ gs.hand = <<Card("A", "Spades"), Card("K", "Spades")>>
    /\ gs.community_cards = <<Card("Q", "Spades"), Card("J", "Spades"),
                              Card("10", "Spades")>>

\* No card, as a (rank, suit) pair, occurs twice in the list cs.
PairwiseDistinct(cs) == Cardinality(Range(cs)) = Len(cs)

\* C23: when the hole cards and community cards of a state are pairwise
\* distinct, so are those of every successor legal_moves() returns: the
\* cards a call or raise deals repeat neither one another, nor a hole card,
\* nor a community card already out.
C23_SuccessorsKeepCardsDistinct ==
    (mode = "moves" /\ called /\ PairwiseDistinct(gs.hand \o gs.community_cards)) =>
        \A i \in DOMAIN moves :
            PairwiseDistinct(moves[i].hand \o moves[i].community_cards)

\* gs is the fold successor of the state the chain has just left, which had
\* fewer than 5 community cards: the one successor that keeps them as they are.
FoldOfEarlyState ==
    /\ mode = "moves"
    /\ depth >= 1
    /\ Len(path[Len(path)].community_cards) < 5
    /\ gs.hand = path[Len(path)].hand
    /\ gs.community_cards = path[Len(path)].community_cards
    /\ gs.is_terminal_state

\* C24: game_result() of the fold successor of a state with k < 5 community
\* cards is decided by the 2 + k cards of that state alone: it is +1 exactly
\* when they make a winning category. Before the flop (k = 0) these are the
\* two hole cards, and the result is +1 exactly when the two share a suit,
\* and -1 otherwise.
C24_FoldEvaluatedOnCardsSoFar ==
    (FoldOfEarlyState /\ result # <<>>) =>
        LET before == path[Len(path)]
            k == Len(before.community_cards)
            seen == before.hand \o before.community_cards
        IN  /\ Len(gs.hand \o gs.community_cards) = 2 + k
            /\ result[1] \in {-1, 1}
            /\ result[1] = 1 <=> PokerHand(seen).rank \in winning_hands
            /\ k = 0 => (result[1] = 1 <=> gs.hand[1].suit = gs.hand[2].suit)

\* game_result() has returned +1 for the fold successor of a state before
\* the flop whose two hole cards are of one suit.
C24_Witness ==
    /\ FoldOfEarlyState
    /\ path[Len(path)].community_cards = <<>>
    /\ ~path[Len(path)].is_terminal_state
    /\ Len(gs.hand) = 2
    /\ gs.hand[1].suit = gs.hand[2].suit
    /\ result = <<1>>

---------------------------------------------------------------------------
(* Claims about PokerHand, checked under SpecHand                          *)

\* Five cards of five consecutive rank indices, in any order.
Consecutive5(cs) ==
    /\ Len(cs) = 5
    /\ \E lo \in 0..8 : {RankIndex(cs[i]) : i \in 1..5} = lo..(lo + 4)

\* Exactly one card's suit differs from the suit the others share.
OneSuitChanged(cs) ==
    \E p \in DOMAIN cs :
        /\ \A i, j \in DOMAIN cs \ {p} : cs[i].suit = cs[j].suit
        /\ \A i \in DOMAIN cs \ {p} : cs[i].suit # cs[p].suit

\* C9: the evaluator rejects every input of fewer than 5 or more than 7
\* cards with InvalidHandSize and returns no category for it.
C9_RejectsOutOfRangeSizes ==
    (rank # "none" /\ Len(cards) \notin 5..7) => rank = "InvalidHandSize"

\* C10: five cards of consecutive rank indices that share one suit evaluate
\* to Straight Flush; with exactly one card's suit changed they evaluate to
\* Straight.
C10_StraightFlushVsStraight ==
    (rank # "none" /\ Consecutive5(cards)) =>
        /\ (\A i \in 1..5 : cards[i].suit = cards[1].suit) => rank = "Straight Flush"
        /\ OneSuitChanged(cards) => rank = "Straight"

\* A run in shuffled order with one suit changed has been evaluated.
C10_Witness ==
    /\ rank = "Straight"
    /\ Consecutive5(cards)
    /\ OneSuitChanged(cards)
    /\ RankIndex(cards[1]) < RankIndex(cards[2])
    /\ RankIndex(cards[3]) < RankIndex(cards[2])

\* The set of rank indices of the cards.
IndexSet(cs) == {RankIndex(cs[i]) : i \in DOMAIN cs}

AllOneSuit(cs) == \A i \in DOMAIN cs : cs[i].suit = cs[1].suit

\* C11: five cards of ranks A, 2, 3, 4, 5 (rank indices 0, 1, 2, 3, 12) whose
\* suits are not all equal evaluate to Straight, as five cards of ranks 2 to
\* 6 that are not a flush do, and never to High Card; when the five suits
\* are equal they evaluate to Straight Flush.
C11_WheelIsStraight ==
    (rank # "none" /\ Len(cards) = 5) =>
        /\ IndexSet(cards) = {0, 1, 2, 3, 12} =>
              /\ rank # "High Card"
              /\ rank = (IF AllOneSuit(cards) THEN "Straight Flush" ELSE "Straight")
        /\ (IndexSet(cards) = 0..4 /\ ~AllOneSuit(cards)) => rank = "Straight"

\* A wheel of three suits, the ace neither first nor last, has been evaluated.
C11_Witness ==
    /\ rank = "Straight"
    /\ Len(cards) = 5
    /\ IndexSet(cards) = {0, 1, 2, 3, 12}
    /\ Cardinality({cards[i].suit : i \in 1..5}) = 3
    /\ cards[3].rank = "A"

\* Five of the cards' ranks are consecutive by rank index, or are the wheel.
ContainsRun(cs) == \E run \in StraightRuns : Range(run) \subseteq IndexSet(cs)

\* C12: an input of 5, 6 or 7 cards that holds five consecutive ranks, or
\* the wheel, and is of no stronger category evaluates to Straight, whatever
\* its length.
C12_StraightAtEveryLength ==
    (/\ rank # "none"
     /\ Len(cards) \in 5..7
     /\ ContainsRun(cards)
     /\ rank \notin {"Straight Flush", "Four of a Kind", "Full House", "Flush"})
        => rank = "Straight"

\* The cards with those in positions i and i + 1 exchanged.
SwapAdjacent(cs, i) == [cs EXCEPT ![i] = cs[i + 1], ![i + 1] = cs[i]]

Reversed(cs) == [i \in DOMAIN cs |-> cs[Len(cs) + 1 - i]]

\* The reorderings each input is compared with: every exchange of two
\* neighbours, and the reversal. Exchanges of neighbours compose to every
\* permutation, and the inputs drawn from the pool and the five-card run
\* hands contain every reordering of each of their members.
Reorderings(cs) == {SwapAdjacent(cs, i) : i \in 1..(Len(cs) - 1)} \cup {Reversed(cs)}

\* C14: of 5 to 7 cards, the category and the rank of the first card of
\* self.cards (the highest) are the same for the cards in another order.
C14_OrderDoesNotMatter ==
    (rank # "none" /\ Len(cards) \in 5..7) =>
        \A q \in Reorderings(cards) :
            LET other == PokerHand(q)
            IN  /\ other.rank = rank
                /\ other.cards[1].rank = self_cards[1].rank

\* Seven cards given out of order, two pairs among them, have been evaluated.
C14_Witness ==
    /\ rank = "Two Pair"
    /\ Len(cards) = 7
    /\ cards # self_cards
    /\ Reversed(cards) # self_cards
    /\ Cardinality(Range(cards)) = 7

---------------------------------------------------------------------------
(* Claims about Deck, checked under SpecDeck                               *)

\* The 13 x 4 rank/suit combinations.
AllCards == {Card(ranks[r], suits[u]) : r \in DOMAIN ranks, u \in DOMAIN suits}

\* C15: the cards drawn from a new Deck are pairwise distinct and each is
\* the last card of what remained, so that the remaining cards followed by
\* the drawn ones, latest first, are the deck as shuffled; 52 draws return
\* each of the 13 x 4 combinations once; no 53rd card is returned, and a
\* draw raises only from the empty deck, after 52 cards.
C15_FiftyTwoDistinctThenError ==
    mode = "deck" =>
        /\ Len(drawn) <= 52
        /\ Cardinality(Range(drawn)) = Len(drawn)
        /\ (deck_cards \o Reversed(drawn)) \in ShuffledDecks
        /\ Len(drawn) = 52 => (Range(drawn) = AllCards /\ deck_cards = <<>>)
        /\ raised # "none" =>
              (raised = "IndexError" /\ Len(drawn) = 52 /\ deck_cards = <<>>)

\* The 53rd draw of a deck that was shuffled has raised.
C15_Witness ==
    /\ raised = "IndexError"
    /\ Len(drawn) = 52
    /\ Reversed(drawn) # DeckOrder

---------------------------------------------------------------------------
(* Claims about MCTS.simulate_random_game, checked under SpecRollout       *)

\* The state simulate_random_game was called with.
RolloutStart == IF path = <<>> THEN gs ELSE path[1]

\* At every point of a rollout: at most one move has been made, from a
\* state that was not terminal to one of successors that are all terminal;
\* the value returned is game_result() of the current, terminal state, one
\* of the values simulate_random_game yields for the start state, after no
\* move from a terminal start and after one move otherwise.
RolloutSafe ==
    mode = "rollout" =>
        /\ Len(path) <= 1
        /\ Len(path) = 1 =>
              /\ ~is_terminal(path[1])
              /\ \A i \in DOMAIN moves : is_terminal(moves[i])
              /\ is_terminal(gs)
        /\ result # <<>> =>
              /\ is_terminal(gs)
              /\ result[1] = game_result(gs)
              /\ result[1] \in simulate_random_game(RolloutStart)
              /\ Len(path) = (IF is_terminal(RolloutStart) THEN 0 ELSE 1)

\* C19: simulate_random_game returns from every start state, and what holds
\* of it is RolloutSafe at every point: no move from a terminal start, one
\* move otherwise, game_result() of a terminal state returned.
C19_RolloutReturnsAfterOneMove == []RolloutSafe /\ <>(result # <<>>)

\* A rollout from before the flop has returned +1 after its one move, a
\* call or raise that dealt five cards.
C19_Witness ==
    /\ mode = "rollout"
    /\ result = <<1>>
    /\ Len(path) = 1
    /\ path[1].community_cards = <<>>
    /\ ~gs.is_terminal_state
    /\ Len(gs.community_cards) = 5

---------------------------------------------------------------------------
(* Claims about determine_winner, checked under SpecShowdown               *)

\* The place of each category in the order High Card < One Pair < Two Pair
\* < Three of a Kind < Straight < Flush < Full House < Four of a Kind <
\* Straight Flush.
CategoryOrder ==
    <<"High Card", "One Pair", "Two Pair", "Three of a Kind", "Straight",
      "Flush", "Full House", "Four of a Kind", "Straight Flush">>

Strength(c) == CHOOSE i \in DOMAIN CategoryOrder : CategoryOrder[i] = c

\* C20: determine_winner names the player whose hole cards with the
\* community cards make the category that is stronger in CategoryOrder, and
\* a tie exactly when the two categories are equal.
C20_StrongerCategoryWins ==
    winner # "none" =>
        LET player_rank == PokerHand(table.player_hand \o table.community_cards).rank
            ai_rank == PokerHand(table.ai_hand \o table.community_cards).rank
        IN  /\ winner = "Player wins!" <=> Strength(player_rank) > Strength(ai_rank)
            /\ winner = "AI wins!" <=> Strength(ai_rank) > Strength(player_rank)
            /\ winner = "It's a tie!" <=> player_rank = ai_rank

---------------------------------------------------------------------------
(* Claims about the PokerHand of 6_poker_holdem_final.py, under SpecFinal  *)

Max(S) == CHOOSE x \in S : \A y \in S : y <= x

\* The rank of the highest card among the cards.
HighestRank(cs) == ranks[Max(IndexSet(cs)) + 1]

CategoryNames ==
    {"High Card", "One Pair", "Two Pair", "Three of a Kind", "Straight",
     "Flush", "Full House", "Four of a Kind", "Straight Flush"}

\* C13: of 5 to 7 cards evaluate_hand returns a pair: a category, and the
\* rank of the highest card among all the cards given, whichever cards make
\* the category. 2c 7d 9h Js 4d Kc 3c gives (High Card, K); two-pair hands
\* of different pairs under the same highest card give equal results.
C13_CategoryAndHighestCard ==
    (ranked # <<>> /\ Len(cards) \in 5..7) =>
        /\ Len(ranked) = 2
        /\ ranked[1] \in CategoryNames
        /\ ranked[2] = HighestRank(cards)
        /\ cards = <<Card("2", "Clubs"), Card("7", "Diamonds"), Card("9", "Hearts"),
                     Card("J", "Spades"), Card("4", "Diamonds"), Card("K", "Clubs"),
                     Card("3", "Clubs")>>
              => ranked = <<"High Card", "K">>
        /\ (IndexSet(cards) \in {{7, 11, 2, 12, 1}, {10, 3, 12, 5, 1}}
             /\ Len(cards) = 7)
              => ranked = <<"Two Pair", "A">>

\* Nines and kings under an ace, the ace sixth of seven cards, have been
\* evaluated.
C13_Witness ==
    /\ ranked = <<"Two Pair", "A">>
    /\ Len(cards) = 7
    /\ cards[1].rank = "9"
    /\ cards[6].rank = "A"

===========================================================================
